---- MODULE Spec2Model ----
(***************************************************************************)
(* One invocation of the mboot command line tool (src/mboot/__main__.py):  *)
(* the command's arguments, the devices the enumeration finds, the answers *)
(* of the device to every primitive, and the log of what the command did   *)
(* (device calls and operator-visible output) in program order.            *)
(* The debug level only changes the wording of the error message and adds  *)
(* blank lines, so it is not a variable.  UINT arguments are taken >= 0.   *)
(***************************************************************************)
EXTENDS Integers, Sequences, FiniteSets, TLC

VARIABLES
    cmd,                \* the sub-command that runs
    pc,                 \* position in the command's body
    address,            \* local `address` (None when not supplied)
    length,             \* local `length` (None when not supplied)
    opt,                \* the command line arguments as given (never assigned)
    image,              \* the input file of write/memconf/sbfile
    data,               \* local `data` (write: bytes to write, read: bytes read)
    devs,               \* number of descriptors mboot.scan_usb returns
    hid_dev,            \* index of the selected descriptor (None before)
    mb,                 \* the McuBoot instance: "none", "created", "open", "closed"
    err_msg,            \* local `err_msg` is non-empty
    flash_sector_size,  \* local `flash_sector_size` of write
    commands,           \* local `commands` of erase: the available commands
    sector,             \* the flash sector size of the attached device
    todo,               \* primitives left in the try block of the one-line commands
    log,                \* device calls and output, in program order
    msg,                \* the lines hexdump returned
    exit_code           \* process exit status (None while the command runs)

vars == <<cmd, pc, address, length, opt, image, data, devs, hid_dev, mb, err_msg,
          flash_sector_size, commands, sector, todo, log, msg, exit_code>>

(***************************************************************************)
(* Bounds of the model.                                                    *)
(***************************************************************************)
MaxAddress == 5
MaxLen == 4
MaxOffset == 2
MaxSector == 4
MaxDevs == 2
MaxFlashSize == 3

(***************************************************************************)
(* Values.                                                                 *)
(***************************************************************************)
None == -1          \* Python None for an integer argument that was not given
ERROR_CODE == 1

\* the scenario of the specification: address 0x1003, 10 bytes, sector 0x200
ScenarioAddresses == {4099}
ScenarioLens == {10}
ScenarioSectors == {512}

Addresses == (0..MaxAddress) \cup ScenarioAddresses
DataLens == (0..MaxLen) \cup ScenarioLens
SectorSizes == (0..MaxSector) \cup ScenarioSectors
Formats == {"bin", "ihex", "srec"}
CommandTags == {"FLASH_ERASE_ALL", "FLASH_ERASE_ALL_UNSECURE", "READ_MEMORY"}

WriteCmds == {"write"}
ReadCmds == {"read"}
EraseCmds == {"erase"}
FileCmds == {"memconf", "sbfile"}
PlainCmds == {"info", "memlist", "efuse", "unlock", "fill", "update", "call",
              "execute", "reset"}
OneLineCmds == FileCmds \cup PlainCmds
Commands == WriteCmds \cup ReadCmds \cup EraseCmds \cup OneLineCmds

\* an entry of the log: a call of the device library, or output to the operator
Call(op, a, b, ok) == [op |-> op, a |-> a, b |-> b, ok |-> ok]
Echo(what) == [op |-> what, a |-> None, b |-> None, ok |-> TRUE]

\* the bytes of an image of n bytes: byte i of the file is i (mod 256)
Bytes(n) == [i \in 1..n |-> i % 256]
\* the flash of the device: the byte at address a
MemByte(a) == (a \div 2) % 2

NoOpt == [mass |-> FALSE, offset |-> 0, compress |-> FALSE, file |-> "None",
          value |-> FALSE, key |-> FALSE, address |-> None, length |-> None]
NoImage == [format |-> "None", minimum_address |-> 0, bytes |-> <<>>]

(***************************************************************************)
(* Python's integer operators.                                             *)
(***************************************************************************)
RECURSIVE And(_, _)
\* a & b for a >= 0, b >= 0
And(a, b) ==
    IF a = 0 \/ b = 0 THEN 0
    ELSE (a % 2) * (b % 2) + 2 * And(a \div 2, b \div 2)

RECURSIVE AndNot(_, _)
\* a & ~m for a >= 0, m >= 0: the bits of a that are not bits of m
AndNot(a, m) ==
    IF a = 0 THEN 0
    ELSE (a % 2) * (1 - (m % 2)) + 2 * AndNot(a \div 2, m \div 2)

\* ~x on Python's unbounded two's complement integers
Invert(x) == -x - 1

\* a & b for a >= 0 and any integer b
BitAnd(a, b) == IF b >= 0 THEN And(a, b) ELSE AndNot(a, Invert(b))

\* n is a power of two
IsPowerOfTwo(n) == \E k \in 0..12 : n = 2^k

(***************************************************************************)
(* write: the erase window (lines 479-483).                                *)
(***************************************************************************)
\* start_address = (address & ~(flash_sector_size - 1))
EraseStart(addr, fss) == BitAnd(addr, Invert(fss - 1))

\* EraseLength without the sector that covers the remainder
EraseLengthTruncated(n, fss) == BitAnd(n, Invert(fss - 1))

\* length = (len(data) & ~(flash_sector_size - 1)), one more sector when
\* len(data) % flash_sector_size > 0; fss # 0 (the caller raises on 0)
EraseLength(n, fss) ==
    LET l == BitAnd(n, Invert(fss - 1))
    IN  IF (n % fss) > 0 THEN l + fss ELSE l

(***************************************************************************)
(* write: the image (lines 444-463); read: the saved file (lines 549-566). *)
(***************************************************************************)
\* the address taken from the image even when the operator gave one
BaseAddressFromImage(addr, img) ==
    IF img.format = "bin" THEN 0 ELSE img.minimum_address

\* if address is None: address = in_data.minimum_address, or 0 for a binary
BaseAddress(addr, img) ==
    IF addr # None THEN addr
    ELSE IF img.format = "bin" THEN 0
    ELSE img.minimum_address

\* data[offset:] whatever the offset
ApplyOffsetAlways(bytes, offset) == SubSeq(bytes, offset + 1, Len(bytes))

\* if offset < len(data): data = data[offset:]
ApplyOffset(bytes, offset) ==
    IF offset < Len(bytes) THEN SubSeq(bytes, offset + 1, Len(bytes)) ELSE bytes

\* the record formats saved without the address of the data
SaveFileAtZero(format, bytes, addr) ==
    [format |-> format,
     minimum_address |-> IF format # "bin" /\ bytes = <<>> THEN None ELSE 0,
     bytes |-> bytes]

\* the file read saves, as write's BinFile finds it: a binary holds the bytes
\* alone and loads at 0; the records of the other two carry the address of
\* every byte, and a file without data records has no minimum address
SaveFile(format, bytes, addr) ==
    [format |-> format,
     minimum_address |-> IF format = "bin" THEN 0
                         ELSE IF bytes = <<>> THEN None
                         ELSE addr,
     bytes |-> bytes]

(***************************************************************************)
(* hexdump (lines 20-96).  A line of the result is a record: the header    *)
(* with its column indices, a separator rule, a data row with its address  *)
(* label, its blank leading columns, its bytes and its text column, or the *)
(* mark ' *' of suppressed rows.                                           *)
(***************************************************************************)
MaxRowWidth == 16

Header(w) == [kind |-> "header", address |-> None, pad |-> 0,
              bytes |-> [k \in 1..w |-> k - 1], text |-> [k \in 1..w |-> k - 1]]
Rule(w) == [kind |-> "rule", address |-> None, pad |-> 13 + 4 * w,
            bytes |-> <<>>, text |-> <<>>]
Mark == [kind |-> "mark", address |-> None, pad |-> 0, bytes |-> <<>>, text |-> <<>>]
\* ' {:08X} | {hexa}| {text}': a byte outside 0x20..0x7E shows as sep ('.')
Row(addr, pad, substr) ==
    [kind |-> "row", address |-> addr, pad |-> pad, bytes |-> substr,
     text |-> [k \in DOMAIN substr |->
                 IF 32 <= substr[k] /\ substr[k] < 127 THEN substr[k] ELSE 46]]

\* prev_line = None: equal to no row
NoLine == <<None>>

\* data[lo:hi] for 0 <= lo
Slice(s, lo, hi) ==
    LET h == IF hi < Len(s) THEN hi ELSE Len(s)
    IN  IF lo >= h THEN <<>> ELSE SubSeq(s, lo + 1, h)

\* the rows cut at multiples of the row width from the start of the data
RowBytesNoOffset(s, i, w, offset, align) == Slice(s, i, i + w)

\* substr: lines 56-59
RowBytes(s, i, w, offset, align) ==
    IF align THEN Slice(s, 0, w - offset)
    ELSE Slice(s, i - offset, i + w - offset)

\* the loop running over the data alone
LoopEndNoOffset(s, offset) == Len(s)

\* the stop of range(0, len(data) + offset, length)
LoopEnd(s, offset) == Len(s) + offset

RECURSIVE hexdump_loop(_, _, _, _, _, _, _, _, _, _)
\* the iterations of the for loop from index i on (lines 54-93)
hexdump_loop(s, compress, w, offset, base, i, align, prev_line, print_mark, lines) ==
    IF i >= LoopEnd(s, offset) THEN lines
    ELSE LET substr == RowBytes(s, i, w, offset, align)
             compared == ~align /\ compress
         IN  IF compared /\ substr = prev_line
             THEN hexdump_loop(s, compress, w, offset, base, i + w, align,
                               prev_line, FALSE,
                               IF print_mark THEN Append(lines, Mark) ELSE lines)
             ELSE hexdump_loop(s, compress, w, offset, base, i + w, FALSE,
                               IF compared THEN substr ELSE prev_line,
                               IF compared THEN TRUE ELSE print_mark,
                               Append(lines, Row(base + i, IF align THEN offset ELSE 0,
                                                 substr)))

\* the rows labelled from the start address itself
AlignedAddressFromStart(start_address, offset) == start_address

\* address = start_address - offset (line 46)
AlignedAddress(start_address, offset) == start_address - offset

\* hexdump(data, start_address, compress, length)
hexdump(s, start_address, compress, len) ==
    LET w == IF len > MaxRowWidth THEN MaxRowWidth ELSE len
        offset == start_address % w
        base == AlignedAddress(start_address, offset)
    IN  Append(hexdump_loop(s, compress, w, offset, base, 0, offset > 0, NoLine, TRUE,
                            <<Header(w), Rule(w)>>),
               Rule(w))

(***************************************************************************)
(* Control flow shared by the commands.                                    *)
(***************************************************************************)
\* the next statement runs
Continue(l, next) ==
    /\ log' = l
    /\ pc' = next
    /\ UNCHANGED <<err_msg, exit_code>>

\* Except reporting and exiting inside the handler, before the close
ExceptExits(l) ==
    /\ log' = Append(l, Echo("error"))
    /\ pc' = "done"
    /\ err_msg' = TRUE
    /\ exit_code' = ERROR_CODE

\* except Exception as e: err_msg = ...; control continues after the try
Except(l) ==
    /\ log' = l
    /\ pc' = "close"
    /\ err_msg' = TRUE
    /\ UNCHANGED exit_code

\* an exception no handler of the command catches leaves main(): the
\* interpreter prints the traceback and exits with status 1
Uncaught(l) ==
    /\ log' = Append(l, Echo("traceback"))
    /\ pc' = "done"
    /\ exit_code' = 1
    /\ UNCHANGED err_msg

\* sys.exit(code), or the return of the command (code 0)
Exit(l, code) ==
    /\ log' = l
    /\ pc' = "done"
    /\ exit_code' = code
    /\ UNCHANGED err_msg

\* mboot.is_command_available(tag, commands)
is_command_available(tag, cmds) == tag \in cmds

\* the device primitives of the try block after open_usb, in order, each with
\* the property it queries ("None" when it is not a property query)
TryBody(c, o, addr) ==
    CASE c = "info"    -> <<<<"get_mcu_info", "None">>>>
      [] c = "memlist" -> <<<<"get_memory_list", "None">>>>
      [] c = "memconf" -> IF addr = None
                          THEN <<<<"get_property", "RAM_START_ADDRESS">>,
                                 <<"get_property", "RAM_SIZE">>,
                                 <<"write_memory", "None">>,
                                 <<"configure_memory", "None">>>>
                          ELSE <<<<"write_memory", "None">>, <<"configure_memory", "None">>>>
      [] c = "sbfile"  -> <<<<"receive_sb_file", "None">>>>
      [] c = "efuse"   -> IF o.value
                          THEN <<<<"flash_program_once", "None">>, <<"flash_read_once", "None">>>>
                          ELSE <<<<"flash_read_once", "None">>>>
      [] c = "unlock"  -> IF o.key
                          THEN <<<<"flash_security_disable", "None">>>>
                          ELSE <<<<"flash_erase_all_unsecure", "None">>>>
      [] c = "fill"    -> <<<<"fill_memory", "None">>>>
      [] c = "update"  -> <<<<"reliable_update", "None">>>>
      [] c = "call"    -> <<<<"call", "None">>>>
      [] c = "execute" -> <<<<"execute", "None">>>>
      [] c = "reset"   -> <<<<"reset", "None">>>>
      [] OTHER         -> <<>>

\* the commands that print a line after a successful run
Prints == {"info", "memlist", "write", "erase", "efuse", "unlock", "fill", "reset"}

\* the first statement of the try block after open_usb
AfterOpen(c, len, o) ==
    CASE c \in WriteCmds -> "get_property"
      [] c \in ReadCmds  -> IF len = None THEN "get_property" ELSE "read_memory"
      [] c \in EraseCmds -> IF o.mass THEN "get_property" ELSE "flash_erase_region"
      [] OTHER           -> "primitive"

(***************************************************************************)
(* The initial state: the command line and what is attached.               *)
(***************************************************************************)
ImageBases == {2}

Images ==
    {[format |-> "bin", minimum_address |-> 0, bytes |-> Bytes(n)] : n \in DataLens}
    \cup {[format |-> f, minimum_address |-> m, bytes |-> Bytes(n)] :
            f \in {"ihex", "srec"}, m \in ImageBases, n \in DataLens \ {0}}
    \* a record file with no data record: BinFile.minimum_address is None
    \cup {[format |-> f, minimum_address |-> None, bytes |-> <<>>] :
            f \in {"ihex", "srec"}}

InitWrite ==
    /\ cmd \in WriteCmds
    /\ address \in {None} \cup Addresses
    /\ length = None
    /\ \E off \in 0..MaxOffset :
          opt = [NoOpt EXCEPT !.offset = off, !.address = address]
    /\ image \in Images
    /\ sector \in SectorSizes

InitRead ==
    /\ cmd \in ReadCmds
    /\ address \in 0..MaxAddress
    /\ length \in {None} \cup (0..MaxLen)
    /\ \E c \in BOOLEAN, f \in {"None"} \cup Formats :
          opt = [NoOpt EXCEPT !.compress = c, !.file = f,
                              !.address = address, !.length = length]
    /\ image = NoImage
    /\ sector = 1

InitErase ==
    /\ cmd \in EraseCmds
    /\ address \in {None} \cup (0..MaxAddress)
    /\ length \in {None} \cup (0..MaxLen)
    /\ \E m \in BOOLEAN :
          opt = [NoOpt EXCEPT !.mass = m, !.address = address, !.length = length]
    /\ image = NoImage
    /\ sector \in SectorSizes \ {0}

InitOneLine ==
    /\ cmd \in OneLineCmds
    /\ address \in IF cmd = "memconf" THEN {None, 0} ELSE {None}
    /\ length = None
    /\ \E v \in (IF cmd = "efuse" THEN BOOLEAN ELSE {FALSE}),
          k \in (IF cmd = "unlock" THEN BOOLEAN ELSE {FALSE}) :
          opt = [NoOpt EXCEPT !.value = v, !.key = k, !.address = address]
    /\ image = NoImage
    /\ sector = 1

Init ==
    /\ \/ InitWrite
       \/ InitRead
       \/ InitErase
       \/ InitOneLine
    /\ pc = IF cmd \in WriteCmds \cup FileCmds THEN "load" ELSE "scan"
    /\ devs \in 0..MaxDevs
    /\ data = <<>>
    /\ hid_dev = None
    /\ mb = "none"
    /\ err_msg = FALSE
    /\ flash_sector_size = None
    /\ commands = {}
    /\ todo = <<>>
    /\ log = <<>>
    /\ msg = <<>>
    /\ exit_code = None

(***************************************************************************)
(* The steps of a command.                                                 *)
(***************************************************************************)
\* a load whose failure lets the command go on to the device
write_load_goes_on ==
    /\ pc = "load"
    /\ cmd \in WriteCmds
    /\ \/ \* bincopy raises: raise Exception('Could not read from file ...')
          /\ Continue(Append(log, Call("load", image.format, None, FALSE)), "scan")
          /\ UNCHANGED <<address, data>>
       \/ /\ address' = BaseAddress(address, image)
          /\ data' = ApplyOffset(image.bytes, opt.offset)
          /\ Continue(Append(log, Call("load", image.format, None, TRUE)), "scan")
    /\ UNCHANGED <<msg, cmd, length, opt, image, devs, hid_dev, mb, flash_sector_size,
                   commands, sector, todo>>

\* write, lines 441-463: load the image, default the address, apply the offset
write_load ==
    /\ pc = "load"
    /\ cmd \in WriteCmds
    /\ \/ \* bincopy raises: raise Exception('Could not read from file ...')
          /\ Uncaught(Append(log, Call("load", image.format, None, FALSE)))
          /\ UNCHANGED <<address, data>>
       \/ /\ address' = BaseAddress(address, image)
          /\ data' = ApplyOffset(image.bytes, opt.offset)
          /\ Continue(Append(log, Call("load", image.format, None, TRUE)), "scan")
    /\ UNCHANGED <<msg, cmd, length, opt, image, devs, hid_dev, mb, flash_sector_size,
                   commands, sector, todo>>

\* memconf, lines 354-356, and sbfile, lines 403-404: open the input file
open_file ==
    /\ pc = "load"
    /\ cmd \in FileCmds
    /\ \/ Uncaught(Append(log, Call("load", cmd, None, FALSE)))
       \/ Continue(Append(log, Call("load", cmd, None, TRUE)), "scan")
    /\ UNCHANGED <<msg, cmd, address, length, opt, image, data, devs, hid_dev, mb,
                   flash_sector_size, commands, sector, todo>>

\* devs[index] for -n <= index < n: a negative index counts from the end
ListIndex(index, n) == IF index < 0 THEN index + n ELSE index

\* scan_usb returning to the command when nothing was found
scan_usb_keeps_going ==
    /\ pc = "scan"
    /\ hid_dev' = IF devs = 0 THEN None ELSE 0
    /\ Continue(Append(log, Call("scan_usb", None, devs, TRUE)), "create")
    /\ UNCHANGED <<msg, cmd, address, length, opt, image, data, devs, mb,
                   flash_sector_size, commands, sector, todo>>

\* scan_usb, lines 197-218: enumerate, let the operator choose among several
scan_usb ==
    /\ pc = "scan"
    /\ LET l0 == Append(log, Call("scan_usb", None, devs, TRUE))
           l1 == Append(l0, Echo("prompt"))
       IN  \/ /\ devs = 0
              /\ Exit(Append(l0, Echo("not_detected")), ERROR_CODE)
              /\ UNCHANGED hid_dev
           \/ /\ devs = 1
              /\ hid_dev' = 0
              /\ Continue(Append(l0, Echo("device")), "create")
           \/ \* the operator types no number: int(c, 10) raises ValueError
              /\ devs > 1
              /\ Uncaught(Append(l1, Call("input", "text", None, FALSE)))
              /\ UNCHANGED hid_dev
           \/ /\ devs > 1
              /\ \E index \in (0 - devs - 1)..devs :
                    LET l2 == Append(l1, Call("input", index, None, TRUE))
                    IN  IF index >= devs \/ index < 0 - devs
                        THEN \* devs[index] raises IndexError
                             /\ Uncaught(l2)
                             /\ UNCHANGED hid_dev
                        ELSE /\ hid_dev' = ListIndex(index, devs)
                             /\ Continue(Append(l2, Echo("device")), "create")
    /\ UNCHANGED <<msg, cmd, address, length, opt, image, data, devs, mb,
                   flash_sector_size, commands, sector, todo>>

\* mb = mboot.McuBoot(); write announces itself first (line 468)
McuBoot ==
    /\ pc = "create"
    /\ mb' = "created"
    /\ Continue(Append(IF cmd \in WriteCmds THEN Append(log, Echo("progress")) ELSE log,
                       Call("McuBoot", None, None, TRUE)),
                IF cmd \in EraseCmds THEN "erase" ELSE "open_usb")
    /\ UNCHANGED <<msg, cmd, address, length, opt, image, data, devs, hid_dev,
                   flash_sector_size, commands, sector, todo>>

\* erase, lines 588 and 601-602: the region branch needs address and length
erase_branch ==
    /\ pc = "erase"
    /\ IF ~opt.mass /\ (address = None \/ length = None)
       THEN Except(log)
       ELSE Continue(log, "open_usb")
    /\ UNCHANGED <<msg, cmd, address, length, opt, image, data, devs, hid_dev, mb,
                   flash_sector_size, commands, sector, todo>>

\* open_usb with the failure of the open swallowed
open_usb_ignores_failure ==
    /\ pc = "open_usb"
    /\ todo' = TryBody(cmd, opt, address)
    /\ \/ /\ mb' = "open"
          /\ Continue(Append(log, Call("open_usb", hid_dev, None, TRUE)),
                      AfterOpen(cmd, length, opt))
       \/ /\ Continue(Append(log, Call("open_usb", hid_dev, None, FALSE)),
                      AfterOpen(cmd, length, opt))
          /\ UNCHANGED mb
    /\ UNCHANGED <<msg, cmd, address, length, opt, image, data, devs, hid_dev,
                   flash_sector_size, commands, sector>>

\* mb.open_usb(hid_dev), the first device call of every command
open_usb ==
    /\ pc = "open_usb"
    /\ \/ /\ mb' = "open"
          /\ todo' = TryBody(cmd, opt, address)
          /\ Continue(Append(log, Call("open_usb", hid_dev, None, TRUE)),
                      AfterOpen(cmd, length, opt))
       \/ /\ Except(Append(log, Call("open_usb", hid_dev, None, FALSE)))
          /\ UNCHANGED <<mb, todo>>
    /\ UNCHANGED <<msg, cmd, address, length, opt, image, data, devs, hid_dev,
                   flash_sector_size, commands, sector>>

\* the try block going on to its next call after a call that failed
primitive_goes_on ==
    /\ pc = "primitive"
    /\ todo # <<>>
    /\ LET op == Head(todo)[1]
           a == IF op = "get_property" THEN Head(todo)[2] ELSE None
       IN  \/ /\ todo' = Tail(todo)
              /\ Continue(Append(log, Call(op, a, None, TRUE)),
                          IF Tail(todo) = <<>> THEN "close" ELSE "primitive")
           \/ /\ todo' = Tail(todo)
              /\ Continue(Append(log, Call(op, a, None, FALSE)),
                          IF Tail(todo) = <<>> THEN "close" ELSE "primitive")
    /\ UNCHANGED <<msg, cmd, address, length, opt, image, data, devs, hid_dev, mb,
                   flash_sector_size, commands, sector>>

\* the one-line commands: the next device primitive of the try block
primitive ==
    /\ pc = "primitive"
    /\ todo # <<>>
    /\ LET op == Head(todo)[1]
           a == IF op = "get_property" THEN Head(todo)[2] ELSE None
       IN  \/ /\ todo' = Tail(todo)
              /\ Continue(Append(log, Call(op, a, None, TRUE)),
                          IF Tail(todo) = <<>> THEN "close" ELSE "primitive")
           \/ /\ Except(Append(log, Call(op, a, None, FALSE)))
              /\ UNCHANGED todo
    /\ UNCHANGED <<msg, cmd, address, length, opt, image, data, devs, hid_dev, mb,
                   flash_sector_size, commands, sector>>

\* write, line 477: flash_sector_size = mb.get_property(FLASH_SECTOR_SIZE)[0]
write_get_property ==
    /\ pc = "get_property"
    /\ cmd \in WriteCmds
    /\ \/ /\ flash_sector_size' = sector
          /\ Continue(Append(log, Call("get_property", "FLASH_SECTOR_SIZE", sector, TRUE)),
                      "flash_erase_region")
       \/ /\ Except(Append(log, Call("get_property", "FLASH_SECTOR_SIZE", None, FALSE)))
          /\ UNCHANGED flash_sector_size
    /\ UNCHANGED <<msg, cmd, address, length, opt, image, data, devs, hid_dev, mb,
                   commands, sector, todo>>

\* the write going on after an erase that failed
write_flash_erase_region_keeps_going ==
    /\ pc = "flash_erase_region"
    /\ cmd \in WriteCmds
    /\ IF address = None \/ flash_sector_size = 0
       THEN \* None & int raises TypeError, len(data) % 0 raises ZeroDivisionError
            Except(log)
       ELSE LET start_address == EraseStart(address, flash_sector_size)
                len == EraseLength(Len(data), flash_sector_size)
            IN  \/ Continue(Append(log, Call("flash_erase_region", start_address, len, TRUE)),
                            "write_memory")
                \/ Continue(Append(log, Call("flash_erase_region", start_address, len, FALSE)),
                            "write_memory")
    /\ UNCHANGED <<msg, cmd, address, length, opt, image, data, devs, hid_dev, mb,
                   flash_sector_size, commands, sector, todo>>

\* write, lines 479-486: align the erase window and erase it
write_flash_erase_region ==
    /\ pc = "flash_erase_region"
    /\ cmd \in WriteCmds
    /\ IF address = None \/ flash_sector_size = 0
       THEN \* None & int raises TypeError, len(data) % 0 raises ZeroDivisionError
            Except(log)
       ELSE LET start_address == EraseStart(address, flash_sector_size)
                len == EraseLength(Len(data), flash_sector_size)
            IN  \/ Continue(Append(log, Call("flash_erase_region", start_address, len, TRUE)),
                            "write_memory")
                \/ Except(Append(log, Call("flash_erase_region", start_address, len, FALSE)))
    /\ UNCHANGED <<msg, cmd, address, length, opt, image, data, devs, hid_dev, mb,
                   flash_sector_size, commands, sector, todo>>

\* write, line 489: mb.write_memory(address, data)
write_memory ==
    /\ pc = "write_memory"
    /\ \/ Continue(Append(log, Call("write_memory", address, data, TRUE)), "close")
       \/ Except(Append(log, Call("write_memory", address, data, FALSE)))
    /\ UNCHANGED <<msg, cmd, address, length, opt, image, data, devs, hid_dev, mb,
                   flash_sector_size, commands, sector, todo>>

\* the size check accepting the address just past the end of the flash
read_get_property_off_by_one ==
    /\ pc = "get_property"
    /\ cmd \in ReadCmds
    /\ \/ \E size \in 0..MaxFlashSize :
             LET l == Append(log, Call("get_property", "FLASH_SIZE", size, TRUE))
             IN  IF address > size
                 THEN \* raise Exception("LENGTH argument is required ...")
                      /\ Except(l)
                      /\ UNCHANGED length
                 ELSE /\ length' = size - address
                      /\ Continue(l, "read_memory")
       \/ /\ Except(Append(log, Call("get_property", "FLASH_SIZE", None, FALSE)))
          /\ UNCHANGED length
    /\ UNCHANGED <<msg, cmd, address, opt, image, data, devs, hid_dev, mb,
                   flash_sector_size, commands, sector, todo>>

\* read, lines 528-532: without a length, read up to the end of the flash
read_get_property ==
    /\ pc = "get_property"
    /\ cmd \in ReadCmds
    /\ \/ \E size \in 0..MaxFlashSize :
             LET l == Append(log, Call("get_property", "FLASH_SIZE", size, TRUE))
             IN  IF address > (size - 1)
                 THEN \* raise Exception("LENGTH argument is required ...")
                      /\ Except(l)
                      /\ UNCHANGED length
                 ELSE /\ length' = size - address
                      /\ Continue(l, "read_memory")
       \/ /\ Except(Append(log, Call("get_property", "FLASH_SIZE", None, FALSE)))
          /\ UNCHANGED length
    /\ UNCHANGED <<msg, cmd, address, opt, image, data, devs, hid_dev, mb,
                   flash_sector_size, commands, sector, todo>>

\* a read_memory whose failure goes unnoticed
read_memory_swallows_failure ==
    /\ pc = "read_memory"
    /\ LET l == Append(log, Echo("progress"))
       IN  \/ /\ data' = [i \in 1..length |-> MemByte(address + i - 1)]
              /\ Continue(Append(l, Call("read_memory", address, length, TRUE)), "close")
           \/ /\ Continue(Append(l, Call("read_memory", address, length, FALSE)), "close")
              /\ UNCHANGED data
    /\ UNCHANGED <<msg, cmd, address, length, opt, image, devs, hid_dev, mb,
                   flash_sector_size, commands, sector, todo>>

\* read, lines 533-535: data = mb.read_memory(address, length)
read_memory ==
    /\ pc = "read_memory"
    /\ LET l == Append(log, Echo("progress"))
       IN  \/ /\ data' = [i \in 1..length |-> MemByte(address + i - 1)]
              /\ Continue(Append(l, Call("read_memory", address, length, TRUE)), "close")
           \/ /\ Except(Append(l, Call("read_memory", address, length, FALSE)))
              /\ UNCHANGED data
    /\ UNCHANGED <<msg, cmd, address, length, opt, image, devs, hid_dev, mb,
                   flash_sector_size, commands, sector, todo>>

\* erase, line 592: commands = mb.get_property(AVAILABLE_COMMANDS)[0]
erase_get_property ==
    /\ pc = "get_property"
    /\ cmd \in EraseCmds
    /\ \/ \E c \in SUBSET CommandTags :
             /\ commands' = c
             /\ Continue(Append(log, Call("get_property", "AVAILABLE_COMMANDS", c, TRUE)),
                         "flash_erase_all")
       \/ /\ Except(Append(log, Call("get_property", "AVAILABLE_COMMANDS", None, FALSE)))
          /\ UNCHANGED commands
    /\ UNCHANGED <<msg, cmd, address, length, opt, image, data, devs, hid_dev, mb,
                   flash_sector_size, sector, todo>>

\* erase_all with the two tests in the other order
erase_all_prefers_plain ==
    /\ pc = "flash_erase_all"
    /\ LET op == IF is_command_available("FLASH_ERASE_ALL", commands)
                 THEN "flash_erase_all"
                 ELSE IF is_command_available("FLASH_ERASE_ALL_UNSECURE", commands)
                 THEN "flash_erase_all_unsecure"
                 ELSE "none"
       IN  IF op = "none"
           THEN Except(log)
           ELSE \/ Continue(Append(log, Call(op, None, None, TRUE)), "close")
                \/ Except(Append(log, Call(op, None, None, FALSE)))
    /\ UNCHANGED <<msg, cmd, address, length, opt, image, data, devs, hid_dev, mb,
                   flash_sector_size, commands, sector, todo>>

\* erase, lines 594-599: erase everything with the primitive the device has
erase_all ==
    /\ pc = "flash_erase_all"
    /\ LET op == IF is_command_available("FLASH_ERASE_ALL_UNSECURE", commands)
                 THEN "flash_erase_all_unsecure"
                 ELSE IF is_command_available("FLASH_ERASE_ALL", commands)
                 THEN "flash_erase_all"
                 ELSE "none"
       IN  IF op = "none"
           THEN \* raise Exception('Not Supported Command')
                Except(log)
           ELSE \/ Continue(Append(log, Call(op, None, None, TRUE)), "close")
                \/ Except(Append(log, Call(op, None, None, FALSE)))
    /\ UNCHANGED <<msg, cmd, address, length, opt, image, data, devs, hid_dev, mb,
                   flash_sector_size, commands, sector, todo>>

\* erase, line 606: mb.flash_erase_region(address, length)
erase_region ==
    /\ pc = "flash_erase_region"
    /\ cmd \in EraseCmds
    /\ \/ Continue(Append(log, Call("flash_erase_region", address, length, TRUE)), "close")
       \/ Except(Append(log, Call("flash_erase_region", address, length, FALSE)))
    /\ UNCHANGED <<msg, cmd, address, length, opt, image, data, devs, hid_dev, mb,
                   flash_sector_size, commands, sector, todo>>

\* close issued only on a device that was opened
close_when_open ==
    /\ pc = "close"
    /\ IF mb = "open"
       THEN /\ mb' = "closed"
            /\ \/ Continue(Append(log, Call("close", None, None, TRUE)), "report")
               \/ Uncaught(Append(log, Call("close", None, None, FALSE)))
       ELSE /\ UNCHANGED mb
            /\ Continue(log, "report")
    /\ UNCHANGED <<msg, cmd, address, length, opt, image, data, devs, hid_dev,
                   flash_sector_size, commands, sector, todo>>

\* mb.close(), the statement after the try block of every command
close ==
    /\ pc = "close"
    /\ mb' = "closed"
    /\ \/ Continue(Append(log, Call("close", None, None, TRUE)), "report")
       \/ Uncaught(Append(log, Call("close", None, None, FALSE)))
    /\ UNCHANGED <<msg, cmd, address, length, opt, image, data, devs, hid_dev,
                   flash_sector_size, commands, sector, todo>>

\* if err_msg: click.echo(err_msg); sys.exit(ERROR_CODE); else the command's
\* closing lines (read goes on to its output)
report ==
    /\ pc = "report"
    /\ IF err_msg
       THEN Exit(Append(log, Echo("error")), ERROR_CODE)
       ELSE IF cmd \in ReadCmds
       THEN Continue(log, "output")
       ELSE Exit(IF cmd \in Prints THEN Append(log, Echo("success")) ELSE log, 0)
    /\ UNCHANGED <<msg, cmd, address, length, opt, image, data, devs, hid_dev, mb,
                   flash_sector_size, commands, sector, todo>>

\* read, lines 546-568: dump the data, or save it in the format of the file
read_output ==
    /\ pc = "output"
    /\ IF opt.file = "None"
       THEN /\ msg' = hexdump(data, address, opt.compress, MaxRowWidth)
            /\ Exit(Append(log, Echo("hexdump")), 0)
            /\ UNCHANGED image
       ELSE \/ /\ image' = SaveFile(opt.file, data, address)
               /\ Exit(Append(Append(log, Call("save", opt.file, address, TRUE)),
                              Echo("success")), 0)
               /\ UNCHANGED msg
            \/ \* raise Exception('Could not write to file ...')
               /\ Uncaught(Append(log, Call("save", opt.file, address, FALSE)))
               /\ UNCHANGED <<msg, image>>
    /\ UNCHANGED <<cmd, address, length, opt, data, devs, hid_dev, mb,
                   flash_sector_size, commands, sector, todo>>

Next ==
    \/ write_load
    \/ open_file
    \/ scan_usb
    \/ McuBoot
    \/ erase_branch
    \/ open_usb
    \/ primitive
    \/ write_get_property
    \/ write_flash_erase_region
    \/ write_memory
    \/ read_get_property
    \/ read_memory
    \/ erase_get_property
    \/ erase_all
    \/ erase_region
    \/ close
    \/ report
    \/ read_output

Spec == Init /\ [][Next]_vars

(***************************************************************************)
(* hexdump on its own: data, address, opt.compress and length hold its     *)
(* arguments data, start_address, compress and length.                     *)
(***************************************************************************)
MaxDumpLen == 6
MaxDumpAddress == 3
DumpBytes == {0, 65}
DumpData == UNION {[1..n -> DumpBytes] : n \in 0..MaxDumpLen}

InitHexdump ==
    /\ cmd = "hexdump"
    /\ pc = "hexdump"
    /\ data \in DumpData
    /\ address \in 0..MaxDumpAddress
    /\ length \in 1..(MaxRowWidth + 1)
    /\ \E c \in BOOLEAN : opt = [NoOpt EXCEPT !.compress = c]
    /\ image = NoImage
    /\ sector = 1
    /\ devs = 0
    /\ hid_dev = None
    /\ mb = "none"
    /\ err_msg = FALSE
    /\ flash_sector_size = None
    /\ commands = {}
    /\ todo = <<>>
    /\ log = <<>>
    /\ msg = <<>>
    /\ exit_code = None

\* msg = hexdump(data, start_address, compress, length)
hexdump_call ==
    /\ pc = "hexdump"
    /\ msg' = hexdump(data, address, opt.compress, length)
    /\ pc' = "done"
    /\ UNCHANGED <<cmd, address, length, opt, image, data, devs, hid_dev, mb, err_msg,
                   flash_sector_size, commands, sector, todo, log, exit_code>>

NextHexdump == hexdump_call

SpecHexdump == InitHexdump /\ [][NextHexdump]_vars

(***************************************************************************)
(* The round trip through a file: a read that saved its data, followed by  *)
(* a write of that file with no address and no offset on the command line. *)
(***************************************************************************)
InitRoundTrip ==
    /\ Init
    /\ cmd \in ReadCmds
    /\ opt.file \in Formats

\* the second invocation, `write <file>`: write, lines 439-442.  The log
\* keeps what the read was asked for and what it got.
write_saved ==
    /\ pc = "done"
    /\ cmd \in ReadCmds
    /\ exit_code = 0
    /\ opt.file \in Formats
    /\ cmd' = "write"
    /\ pc' = "load"
    /\ address' = None
    /\ length' = None
    /\ opt' = NoOpt
    /\ data' = <<>>
    /\ hid_dev' = None
    /\ mb' = "none"
    /\ err_msg' = FALSE
    /\ flash_sector_size' = None
    /\ sector' \in SectorSizes
    /\ todo' = <<>>
    /\ exit_code' = None
    /\ log' = Append(log, Call("write_saved", address, data, TRUE))
    /\ UNCHANGED <<msg, image, devs, commands>>

NextRoundTrip ==
    \/ scan_usb
    \/ McuBoot
    \/ open_usb
    \/ read_get_property
    \/ read_memory
    \/ close
    \/ report
    \/ read_output
    \/ write_saved
    \/ write_load
    \/ write_get_property
    \/ write_flash_erase_region
    \/ write_memory

SpecRoundTrip == InitRoundTrip /\ [][NextRoundTrip]_vars

(***************************************************************************)
(* Reading the log.                                                        *)
(***************************************************************************)
\* the positions of the log where `o` happened
Ops(o) == {i \in DOMAIN log : log[i].op = o}
Count(o) == Cardinality(Ops(o))
Done == pc = "done"

\* the operations on an open device, open_usb and close apart
DevicePrimitives ==
    {"get_property", "flash_erase_region", "write_memory", "read_memory",
     "flash_erase_all", "flash_erase_all_unsecure", "get_mcu_info",
     "get_memory_list", "configure_memory", "receive_sb_file",
     "flash_program_once", "flash_read_once", "flash_security_disable",
     "fill_memory", "reliable_update", "call", "execute", "reset"}
\* what reports a failure to the operator
Reports == {"error", "traceback"}
\* what tells the operator the command succeeded
Successes == {"success", "hexdump"}

\* the erase requests of the write command, once the sector size is a power of two
WriteErases ==
    IF cmd \in WriteCmds /\ IsPowerOfTwo(flash_sector_size)
    THEN Ops("flash_erase_region") ELSE {}

(***************************************************************************)
(* C1: in write, with a power-of-two sector size, the erased window        *)
(* (start_address, length) contains the written range:                     *)
(* start_address <= address and                                            *)
(* start_address + length >= address + len(data).                          *)
(***************************************************************************)
C1_EraseWindowContainsWrite ==
    \A i \in WriteErases :
        /\ log[i].a <= address
        /\ log[i].a + log[i].b >= address + Len(data)

(***************************************************************************)
(* C2: in write, with a power-of-two sector size, the erase start is the   *)
(* largest multiple of the sector size <= address and the erase length is  *)
(* the smallest multiple of the sector size >= len(data); address 0x1003,  *)
(* 10 bytes, sector 0x200 give start 0x1000 and length 0x200.              *)
(***************************************************************************)
C2_EraseStartAndLengthRounded ==
    \A i \in WriteErases :
        /\ log[i].a % flash_sector_size = 0
        /\ log[i].a <= address
        /\ address < log[i].a + flash_sector_size
        /\ log[i].b % flash_sector_size = 0
        /\ log[i].b >= Len(data)
        /\ log[i].b < Len(data) + flash_sector_size
        /\ (Len(data) = 0 => log[i].b = 0)
        /\ (address = 4099 /\ Len(data) = 10 /\ flash_sector_size = 512
               => log[i].a = 4096 /\ log[i].b = 512)

\* the scenario's erase was issued, from an address that is not aligned
C2_Witness ==
    /\ WriteErases # {}
    /\ address = 4099
    /\ Len(data) = 10
    /\ flash_sector_size = 512

(***************************************************************************)
(* C3: when the device reports a sector size that is not a power of two,   *)
(* write issues no flash_erase_region and no write_memory.                 *)
(***************************************************************************)
C3_NonPowerOfTwoFailsFast ==
    (cmd \in WriteCmds /\ flash_sector_size # None /\ ~IsPowerOfTwo(flash_sector_size))
        => (Count("flash_erase_region") = 0 /\ Count("write_memory") = 0)

(***************************************************************************)
(* C4: every flash_erase_region request, of write and of erase, has a      *)
(* start address and a length that are multiples of the device's sector    *)
(* size.                                                                   *)
(***************************************************************************)
C4_EraseRequestsSectorAligned ==
    \A i \in Ops("flash_erase_region") :
        sector > 0 => (log[i].a % sector = 0 /\ log[i].b % sector = 0)

(***************************************************************************)
(* C5: once the device handle exists, close is issued exactly once before  *)
(* the command ends, whatever succeeded or raised; never twice, and never  *)
(* without a handle.                                                       *)
(***************************************************************************)
C5_CloseExactlyOnce ==
    /\ Count("close") <= 1
    /\ (mb = "none" => Count("close") = 0)
    /\ (Done /\ mb # "none") => (Count("close") = 1 /\ mb = "closed")

\* a command whose open failed has ended, and close was issued once
C5_Witness ==
    /\ Done
    /\ \E i \in Ops("open_usb") : ~log[i].ok
    /\ Count("close") = 1

(***************************************************************************)
(* C6: a failure of a device primitive or of image loading/saving ends the *)
(* command with exit code 1; nothing is reported to the operator between   *)
(* the creation of the handle and its close; no success message follows a  *)
(* failure.                                                                *)
(***************************************************************************)
C6_FailureReportedAfterClose ==
    /\ (Done /\ \E i \in DOMAIN log : ~log[i].ok) => exit_code = ERROR_CODE
    /\ \A i \in DOMAIN log :
          (log[i].op \in Reports /\ \E j \in Ops("McuBoot") : j < i)
              => \E j \in Ops("close") : j < i
    /\ \A i \in DOMAIN log :
          log[i].op \in Successes => \A j \in 1..i : log[j].ok
    /\ (Done /\ err_msg) => exit_code = ERROR_CODE

\* a device primitive failed on an open device, and the command has ended
C6_Witness ==
    /\ Done
    /\ exit_code = ERROR_CODE
    /\ \E i \in DOMAIN log : log[i].op \in DevicePrimitives /\ ~log[i].ok
    /\ Count("error") = 1

(***************************************************************************)
(* C7, as claimed: close is reached only from Connected or an operation    *)
(* state, never on a handle whose open was not attempted or failed.        *)
(***************************************************************************)
C7_CloseOnlyAfterSuccessfulOpen ==
    \A i \in Ops("close") : \E j \in Ops("open_usb") : j < i /\ log[j].ok

(***************************************************************************)
(* C7, amended: Connected is entered only after a successful open, no      *)
(* device primitive is issued before Connected nor after close, the open   *)
(* is attempted at most once and only on a created handle, and close is    *)
(* reached once the handle exists: from Connected or an operation state,   *)
(* and also when the open failed or was never attempted.  The command ends *)
(* only after close.                                                       *)
(***************************************************************************)
C7_StateSequence ==
    /\ (mb = "open") <=> (/\ \E j \in Ops("open_usb") : log[j].ok
                          /\ Count("close") = 0)
    /\ \A i \in DOMAIN log :
          log[i].op \in DevicePrimitives =>
              /\ \E j \in Ops("open_usb") : j < i /\ log[j].ok
              /\ \A j \in Ops("close") : i < j
    /\ Count("open_usb") <= 1
    /\ \A i \in Ops("open_usb") \cup Ops("close") : \E j \in Ops("McuBoot") : j < i
    /\ \A i \in Ops("open_usb") : \A j \in Ops("close") : i < j
    /\ (Done /\ Count("McuBoot") > 0) => Count("close") = 1

\* close was issued on a handle that was never opened
C7_Witness ==
    /\ Count("close") = 1
    /\ Count("open_usb") = 0
    /\ cmd \in EraseCmds

(***************************************************************************)
(* C8: in the mass-erase branch, once the device has reported its          *)
(* available commands: erase-all-unsecure is invoked, once, when it is     *)
(* available; plain erase-all is invoked, once, when it alone is           *)
(* available; neither is invoked and the command fails when neither is     *)
(* available.  Never both.                                                 *)
(***************************************************************************)
C8_MassEraseChoosesOne ==
    (/\ cmd \in EraseCmds
     /\ opt.mass
     /\ \E i \in Ops("get_property") : log[i].ok
     /\ pc \in {"close", "report", "done"})
    => LET u == Count("flash_erase_all_unsecure")
           p == Count("flash_erase_all")
       IN  /\ u + p <= 1
           /\ "FLASH_ERASE_ALL_UNSECURE" \in commands => (u = 1 /\ p = 0)
           /\ ("FLASH_ERASE_ALL_UNSECURE" \notin commands
                  /\ "FLASH_ERASE_ALL" \in commands) => (u = 0 /\ p = 1)
           /\ ("FLASH_ERASE_ALL_UNSECURE" \notin commands
                  /\ "FLASH_ERASE_ALL" \notin commands)
                 => (u = 0 /\ p = 0 /\ err_msg /\ (Done => exit_code = ERROR_CODE))

\* both primitives are available and the unsecure one was invoked
C8_Witness ==
    /\ cmd \in EraseCmds
    /\ opt.mass
    /\ {"FLASH_ERASE_ALL", "FLASH_ERASE_ALL_UNSECURE"} \subseteq commands
    /\ Count("flash_erase_all_unsecure") = 1
    /\ Done

(***************************************************************************)
(* C9: a region erase with the address or the length missing fails before  *)
(* any device interaction: no enumeration, no prompt, no open and no erase *)
(* primitive.                                                              *)
(***************************************************************************)
C9_UsageErrorBeforeDevice ==
    (cmd \in EraseCmds /\ ~opt.mass /\ (address = None \/ length = None))
        => /\ Count("scan_usb") = 0
           /\ Count("prompt") = 0
           /\ Count("open_usb") = 0
           /\ Count("flash_erase_region") = 0

(***************************************************************************)
(* C10: when the enumeration returns no descriptor, the command exits with *)
(* code 1, no handle is created, no open is attempted and no device        *)
(* primitive is issued.                                                    *)
(***************************************************************************)
C10_NoDeviceExits ==
    devs = 0 =>
        /\ mb = "none"
        /\ Count("McuBoot") = 0
        /\ Count("open_usb") = 0
        /\ Count("close") = 0
        /\ \A i \in DOMAIN log : log[i].op \notin DevicePrimitives
        /\ Count("scan_usb") > 0 => (Done /\ exit_code = ERROR_CODE)

\* the enumeration found nothing and the command has exited
C10_Witness ==
    /\ devs = 0
    /\ Count("not_detected") = 1
    /\ Done
    /\ exit_code = ERROR_CODE

(***************************************************************************)
(* C11, as claimed: with n > 1 descriptors the operator is prompted once;  *)
(* an input that is not an integer in [0, n-1] (no number, >= n, or        *)
(* negative) is an error, with no second prompt, no descriptor selected    *)
(* and no device opened; a selected descriptor is the one at the index     *)
(* typed.                                                                  *)
(***************************************************************************)
C11_InputOutsideRangeIsError ==
    (devs > 1 /\ Count("scan_usb") > 0) =>
        /\ Count("prompt") = 1
        /\ Count("input") = 1
        /\ \A i \in Ops("input") :
              IF log[i].ok /\ log[i].a \in 0..(devs - 1)
              THEN hid_dev = log[i].a
              ELSE /\ hid_dev = None
                   /\ Count("McuBoot") = 0
                   /\ Count("open_usb") = 0
                   /\ Done
                   /\ exit_code = 1

(***************************************************************************)
(* C12: a read without a length first queries the flash size S; an address *)
(* at or after S fails and nothing is read; otherwise read_memory is       *)
(* called once with (address, S - address).  A read with a length calls    *)
(* read_memory with exactly (address, length) and queries nothing.         *)
(***************************************************************************)
C12_ReadLengthDefaultsToFlashEnd ==
    cmd \in ReadCmds =>
        /\ Count("read_memory") <= 1
        /\ \A j \in Ops("read_memory") : log[j].a = opt.address
        /\ opt.length # None =>
              /\ Count("get_property") = 0
              /\ \A j \in Ops("read_memory") : log[j].b = opt.length
        /\ opt.length = None =>
              /\ \A j \in Ops("read_memory") :
                    \E i \in Ops("get_property") :
                       /\ i < j
                       /\ log[i].ok
                       /\ log[i].a = "FLASH_SIZE"
                       /\ opt.address < log[i].b
                       /\ log[j].b = log[i].b - opt.address
              /\ \A i \in Ops("get_property") :
                    IF log[i].ok /\ opt.address < log[i].b
                    THEN pc \in {"close", "report", "output", "done"} =>
                            Count("read_memory") = 1
                    ELSE /\ Count("read_memory") = 0
                         /\ err_msg
                         /\ Done => exit_code = ERROR_CODE

\* the last byte of the flash is read: address = S - 1, one byte
C12_Witness ==
    /\ cmd \in ReadCmds
    /\ opt.length = None
    /\ Done
    /\ exit_code = 0
    /\ \E i \in Ops("get_property"), j \in Ops("read_memory") :
          /\ log[i].ok
          /\ log[i].b = opt.address + 1
          /\ log[j].ok
          /\ log[j].b = 1

(***************************************************************************)
(* C13: write issues its device primitives in the order sector size query, *)
(* flash_erase_region, write_memory; write_memory only follows an erase    *)
(* that succeeded, and is never issued when the query or the erase failed. *)
(***************************************************************************)
C13_WriteOnlyAfterErase ==
    cmd \in WriteCmds =>
        /\ Count("get_property") <= 1
        /\ Count("flash_erase_region") <= 1
        /\ Count("write_memory") <= 1
        /\ \A j \in Ops("flash_erase_region") :
              \E i \in Ops("get_property") :
                 i < j /\ log[i].ok /\ log[i].a = "FLASH_SECTOR_SIZE"
        /\ \A k \in Ops("write_memory") :
              \E j \in Ops("flash_erase_region") : j < k /\ log[j].ok
        /\ (\E i \in Ops("get_property") \cup Ops("flash_erase_region") : ~log[i].ok)
              => Count("write_memory") = 0

\* a write that went through all three primitives
C13_Witness ==
    /\ cmd \in WriteCmds
    /\ Done
    /\ exit_code = 0
    /\ Count("get_property") = 1
    /\ Count("flash_erase_region") = 1
    /\ Count("write_memory") = 1

\* the bytes of the image that write sends, as C14 states them
C14_Written ==
    IF opt.offset < Len(image.bytes)
    THEN [i \in 1..(Len(image.bytes) - opt.offset) |-> image.bytes[i + opt.offset]]
    ELSE image.bytes

(***************************************************************************)
(* C14: write sends data[offset:] when offset < len(data) and the whole    *)
(* data otherwise, without failing; the offset leaves the target address   *)
(* alone, and the erase length is computed from the bytes that are sent.   *)
(***************************************************************************)
C14_OffsetDropsLeadingBytes ==
    cmd \in WriteCmds =>
        /\ \A i \in Ops("load") :
              log[i].ok =>
                 /\ data = C14_Written
                 /\ Len(log) = i => (pc = "scan" /\ ~err_msg /\ exit_code = None)
        /\ \A j \in Ops("flash_erase_region") :
              log[j].b = EraseLength(Len(C14_Written), flash_sector_size)
        /\ \A k \in Ops("write_memory") :
              /\ log[k].b = C14_Written
              /\ opt.address # None => log[k].a = opt.address
              /\ opt.address = None =>
                    log[k].a = (IF image.format = "bin" THEN 0 ELSE image.minimum_address)

\* an offset at or past the end of a non-empty image: everything is written
C14_Witness ==
    /\ cmd \in WriteCmds
    /\ image.bytes # <<>>
    /\ opt.offset >= Len(image.bytes)
    /\ Done
    /\ exit_code = 0
    /\ \E k \in Ops("write_memory") : log[k].ok /\ log[k].b = image.bytes

\* the base address of a write, as C15 states it
C15_Base ==
    IF opt.address # None THEN opt.address
    ELSE IF image.format \in {"ihex", "srec"} THEN image.minimum_address
    ELSE 0

(***************************************************************************)
(* C15: the base address of a write is the address of the command line     *)
(* when one is given, else the lowest address of the image for the record  *)
(* formats, else 0 for raw binary; write_memory is called with it.         *)
(***************************************************************************)
C15_BaseAddressOfWrite ==
    cmd \in WriteCmds =>
        /\ \A i \in Ops("load") : log[i].ok => address = C15_Base
        /\ \A k \in Ops("write_memory") : log[k].a = C15_Base

\* a record image written at its own lowest address
C15_Witness ==
    /\ cmd \in WriteCmds
    /\ opt.address = None
    /\ image.format \in {"ihex", "srec"}
    /\ \E k \in Ops("write_memory") : log[k].ok /\ log[k].a = image.minimum_address

(***************************************************************************)
(* C16, as claimed: what a read from address A saved in any of the three   *)
(* formats is loaded back by a write without an address as the same bytes  *)
(* at the same base address A.                                             *)
(***************************************************************************)
C16_RoundTripAllFormats ==
    \A r \in Ops("write_saved") :
        /\ \A i \in Ops("load") :
              (i > r /\ log[i].ok) => (data = log[r].b /\ address = log[r].a)
        /\ \A k \in Ops("write_memory") :
              log[k].b = log[r].b /\ log[k].a = log[r].a

(***************************************************************************)
(* C16, amended: the bytes come back in all three formats.  The base       *)
(* address A comes back for the record formats when data was read; a raw   *)
(* binary file is loaded at 0, and a record file of an empty read has no   *)
(* address, so that its write fails before write_memory.                   *)
(***************************************************************************)
C16_RoundTripKeepsBytes ==
    \A r \in Ops("write_saved") :
        /\ \A i \in Ops("load") :
              (i > r /\ log[i].ok) =>
                 /\ data = log[r].b
                 /\ address = IF image.format = "bin" THEN 0
                              ELSE IF log[r].b = <<>> THEN None
                              ELSE log[r].a
        /\ \A k \in Ops("write_memory") :
              /\ log[k].b = log[r].b
              /\ log[k].a = IF image.format = "bin" THEN 0 ELSE log[r].a
              /\ image.format # "bin" => log[r].b # <<>>

\* bytes read from a non-zero address, saved as S-records and written back
C16_Witness ==
    \E r \in Ops("write_saved"), k \in Ops("write_memory") :
        /\ image.format = "srec"
        /\ log[r].a > 0
        /\ Len(log[r].b) > 1
        /\ log[k].ok
        /\ log[k].a = log[r].a
        /\ log[k].b = log[r].b

(***************************************************************************)
(* Readers of a dump.                                                      *)
(***************************************************************************)
\* the dump a call of hexdump with a row width of 1..16 returned
Dumped == cmd = "hexdump" /\ pc = "done" /\ length <= MaxRowWidth
DumpOffset == address % length
DumpRows == SelectSeq(msg, LAMBDA l : l.kind = "row")
DumpMarks == SelectSeq(msg, LAMBDA l : l.kind = "mark")
Ceil(a, b) == (a + b - 1) \div b

(***************************************************************************)
(* C17: without compression hexdump emits ceil((len(data) + offset) / w)   *)
(* data rows, offset being start_address mod w, for every w in 1..16.      *)
(***************************************************************************)
C17_RowCount ==
    (Dumped /\ ~opt.compress) =>
        /\ Len(DumpRows) = Ceil(Len(data) + DumpOffset, length)
        /\ Len(DumpMarks) = 0

\* an unaligned start that costs one more row than the data alone
C17_Witness ==
    /\ Dumped
    /\ ~opt.compress
    /\ DumpOffset > 0
    /\ Len(DumpRows) = 3
    /\ Ceil(Len(data), length) = 2

(***************************************************************************)
(* C18, as claimed: the dump of an empty buffer is the header and the two  *)
(* rules, without a data row or a mark, whatever the start address, the    *)
(* row width and compress.                                                 *)
(***************************************************************************)
C18_EmptyBufferNoRows ==
    (Dumped /\ data = <<>>) =>
        msg = <<Header(length), Rule(length), Rule(length)>>

\* the rows of the buffer: row j of ceil((len + offset) / w), as C20 cuts them
PartitionRow(j) ==
    LET first == IF j = 1 THEN 0 ELSE (j - 1) * length - DumpOffset
        past == j * length - DumpOffset
        last == IF past < Len(data) THEN past ELSE Len(data)
    IN  [k \in 1..(last - first) |-> data[first + k]]
Partition == [j \in 1..Ceil(Len(data) + DumpOffset, length) |-> PartitionRow(j)]

\* what C19 lets through of rows 1..j: a row that differs from the one
\* before it, and one mark at the second row of a run
RECURSIVE Compressed(_)
Compressed(j) ==
    IF j = 0 THEN <<>>
    ELSE IF j = 1 \/ Partition[j] # Partition[j - 1]
         THEN Append(Compressed(j - 1), [kind |-> "row", bytes |-> Partition[j]])
    ELSE IF j = 2 \/ Partition[j - 1] # Partition[j - 2]
         THEN Append(Compressed(j - 1), [kind |-> "mark", bytes |-> <<>>])
    ELSE Compressed(j - 1)

\* the lines between the first and the last rule, by kind and bytes
DumpBody == [k \in 1..(Len(msg) - 3) |-> [kind |-> msg[k + 2].kind, bytes |-> msg[k + 2].bytes]]

(***************************************************************************)
(* C19, as claimed: with compression every maximal run of two or more      *)
(* equal rows shows as its first row and one mark, every row that differs  *)
(* from the row before it is shown, and nothing else is.                   *)
(***************************************************************************)
C19_OneMarkPerRun ==
    (Dumped /\ opt.compress) => DumpBody = Compressed(Len(Partition))

RECURSIVE Concat(_, _)
\* the bytes of rows 1..j, one after the other
Concat(rows, j) == IF j = 0 THEN <<>> ELSE Concat(rows, j - 1) \o rows[j].bytes

(***************************************************************************)
(* C20: without compression the rows cut the buffer in order: the first    *)
(* holds min(len, w - offset) bytes after offset blank columns, the later  *)
(* ones w bytes each (the last one may hold fewer), and together they are  *)
(* the buffer.                                                             *)
(***************************************************************************)
C20_RowsPartitionBuffer ==
    (Dumped /\ ~opt.compress) =>
        LET rows == DumpRows
            n == Len(rows)
            room == length - DumpOffset
        IN  /\ n > 0 =>
                  /\ rows[1].pad = DumpOffset
                  /\ Len(rows[1].bytes) = (IF Len(data) < room THEN Len(data) ELSE room)
            /\ \A j \in 2..n :
                  /\ rows[j].pad = 0
                  /\ Len(rows[j].bytes) <= length
                  /\ j < n => Len(rows[j].bytes) = length
                  /\ Len(rows[j].bytes) > 0
            /\ Concat(rows, n) = data
            /\ \A j \in 1..n : rows[j].bytes = Partition[j]

\* three rows from an unaligned start, the last one short
C20_Witness ==
    /\ Dumped
    /\ ~opt.compress
    /\ DumpOffset > 0
    /\ Len(DumpRows) = 3
    /\ Len(DumpRows[3].bytes) < length
    /\ \E k \in 1..Len(data) : data[k] # data[1]

(***************************************************************************)
(* C21: a data row is labelled (start_address - offset) + r * w, r being   *)
(* its index among all rows, the suppressed ones included, and the byte in *)
(* column j of a row labelled L is the byte of address L + j.              *)
(***************************************************************************)
C21_RowLabelIsAddress ==
    Dumped =>
        /\ \A k \in DOMAIN DumpRows :
              LET row == DumpRows[k]
                  r == (row.address - (address - DumpOffset)) \div length
              IN  /\ row.address = (address - DumpOffset) + r * length
                  /\ r \in 0..(Len(Partition) - 1)
                  /\ row.bytes = Partition[r + 1]
                  /\ k > 1 => row.address > DumpRows[k - 1].address
                  /\ \A c \in DOMAIN row.bytes :
                        \* column j = pad + c - 1; data[n] is the byte of
                        \* address start_address + n - 1
                        LET j == row.pad + c - 1
                        IN  row.bytes[c] = data[row.address + j - address + 1]
        /\ ~opt.compress => \A k \in DOMAIN DumpRows :
              DumpRows[k].address = (address - DumpOffset) + (k - 1) * length

\* under compression a row follows a run of two suppressed rows
C21_Witness ==
    /\ Dumped
    /\ opt.compress
    /\ address > 0
    /\ Len(DumpMarks) = 1
    /\ \E k \in 2..Len(DumpRows) :
          DumpRows[k].address >= DumpRows[k - 1].address + 3 * length

\* the calls on the device handle, close apart
DeviceCalls == DevicePrimitives \cup {"open_usb"}

(***************************************************************************)
(* C22: no retry.  In one invocation the open, every property query, every *)
(* other device primitive and the close are issued at most once, and after *)
(* the first device call that fails only close is issued.                  *)
(***************************************************************************)
C22_NoRetry ==
    /\ Count("open_usb") <= 1
    /\ Count("close") <= 1
    /\ \A o \in DevicePrimitives \ {"get_property"} : Count(o) <= 1
    /\ \A i, j \in Ops("get_property") : i # j => log[i].a # log[j].a
    /\ \A i \in DOMAIN log :
          (log[i].op \in DeviceCalls /\ ~log[i].ok) =>
             \A j \in DOMAIN log : j > i => log[j].op \notin DeviceCalls

\* the second of two property queries failed: the command closed and ended
C22_Witness ==
    /\ Done
    /\ Count("get_property") = 2
    /\ \E i \in Ops("get_property") :
          /\ ~log[i].ok
          /\ \E j \in Ops("close") : j > i
    /\ exit_code = ERROR_CODE

\* the read failed at the open, at the size query or at read_memory
ReadFailed ==
    \E i \in Ops("open_usb") \cup Ops("get_property") \cup Ops("read_memory") : ~log[i].ok

(***************************************************************************)
(* C23: read produces its output after the close and only when the read    *)
(* succeeded: the dump exactly when no file was given, the file exactly    *)
(* when one was given, and neither when the open, the size query or        *)
(* read_memory failed.                                                     *)
(***************************************************************************)
C23_OutputAfterCloseOnSuccess ==
    cmd \in ReadCmds =>
        /\ \A i \in Ops("hexdump") \cup Ops("save") :
              /\ \E j \in Ops("close") : j < i
              /\ \E j \in Ops("read_memory") : j < i /\ log[j].ok
        /\ Count("hexdump") > 0 => opt.file = "None"
        /\ Count("save") > 0 => opt.file # "None"
        /\ msg # <<>> => Count("hexdump") = 1
        /\ image # NoImage => \E i \in Ops("save") : log[i].ok
        /\ (Done /\ exit_code = 0) =>
              IF opt.file = "None"
              THEN /\ Count("hexdump") = 1
                   /\ Count("save") = 0
                   /\ msg = hexdump(data, opt.address, opt.compress, MaxRowWidth)
                   /\ image = NoImage
              ELSE /\ Count("save") = 1
                   /\ Count("hexdump") = 0
                   /\ msg = <<>>
                   /\ image.format = opt.file
                   /\ image.bytes = data
        /\ ReadFailed =>
              /\ Count("hexdump") = 0
              /\ Count("save") = 0
              /\ msg = <<>>
              /\ image = NoImage

\* a read into a file: saved after the close, and nothing dumped
C23_Witness ==
    /\ cmd \in ReadCmds
    /\ Done
    /\ opt.file # "None"
    /\ \E i \in Ops("save"), j \in Ops("close") : j < i /\ log[i].ok
    /\ image.bytes # <<>>
    /\ msg = <<>>

(***************************************************************************)
(* C24: write loads the image before it touches a device: when the load    *)
(* fails the command ends in failure without enumeration, selection        *)
(* prompt, open, erase or write.                                           *)
(***************************************************************************)
C24_LoadBeforeDevice ==
    cmd \in WriteCmds =>
        /\ \A i \in DOMAIN log :
              log[i].op \in DeviceCalls \cup {"scan_usb", "prompt", "input", "McuBoot", "close"}
                 => \E j \in Ops("load") : j < i /\ log[j].ok
        /\ (\E j \in Ops("load") : ~log[j].ok) =>
              /\ Done
              /\ exit_code = 1
              /\ Count("scan_usb") = 0
              /\ Count("prompt") = 0
              /\ Count("McuBoot") = 0
              /\ Count("open_usb") = 0
              /\ Count("flash_erase_region") = 0
              /\ Count("write_memory") = 0

\* the load failed: the command ended with status 1 and a traceback only
C24_Witness ==
    /\ cmd \in WriteCmds
    /\ Done
    /\ exit_code = 1
    /\ devs > 1
    /\ Len(log) = 2
    /\ log[1].op = "load"
    /\ ~log[1].ok
    /\ log[2].op = "traceback"

====
